---- MODULE Spec2Model ----
(***************************************************************************)
(* Model of the entity manager layer of python-cloudservers:               *)
(*   src/cloudservers/entitymanager.py            (EntityManager)          *)
(*   src/com/rackspace/cloud/servers/api/client/servermanager.py           *)
(*                                                 (ServerManager)         *)
(* A single client invokes manager methods one at a time; the transport    *)
(* (CloudServersService) answers every request with a nondeterministically *)
(* chosen body or fault.  Python run-time errors that the code provokes    *)
(* (NameError, AttributeError, TypeError, KeyError, UnboundLocalError) are *)
(* modelled as raised exceptions, resolved the way the interpreter does.   *)
(***************************************************************************)
EXTENDS Integers, Sequences, FiniteSets, TLC

VARIABLES pc, call, args, outcome, server, resp, transportFault,
          requests, refreshes, history, started

vars == <<pc, call, args, outcome, server, resp, transportFault,
          requests, refreshes, history, started>>

----------------------------------------------------------------------------
(* Bounds of the model *)

MaxRefresh == 3
MaxOffset == 1
MaxTime == 1
MaxEntities == 1

----------------------------------------------------------------------------
(* Constants of the program *)

DEFAULT_PAGE_SIZE == 100
BEGINNING_OF_TIME == 0

end_states == {"ACTIVE", "SUSPENDED", "VERIFY_RESIZE", "DELETED", "ERROR", "UNKNOWN"}

NonEndStatuses == {"BUILD", "PENDING"}
Statuses == end_states \cup NonEndStatuses

Classes == {"EntityManager", "ServerManager"}

(* Names bound in the namespace of module servermanager.py *)
ModuleGlobals ==
    {"datetime", "time", "EntityManager", "EntityList", "NotImplementedException",
     "CloudServersAPIFault", "Server", "json", "BackupSchedule", "RebootType",
     "rebootType", "ServerManager"}

(* Attributes the two classes define *)
EntityManagerAttrs ==
    {"_POST", "_DELETE", "_GET", "_PUT", "create", "remove", "update", "refresh",
     "find", "wait", "waitT", "notify", "stopNotify", "_createList", "createList",
     "createDeltaList", "createListP", "createDeltaListP"}

ServerManagerAttrs ==
    {"create", "update", "refresh", "find", "status", "serverDetails",
     "_post_action", "_put_action", "_delete_action", "reboot", "rebuild",
     "resize", "confirmResize", "revertResize", "shareIp", "unshareIp",
     "setSchedule", "getSchedule", "_serverInWaitState", "_wait", "wait",
     "notify", "stopNotify", "createEntityListFromResponse"}

(* Keyword parameters _createList accepts *)
CreateListParams == {"detail", "offset", "limit", "lastModified"}

----------------------------------------------------------------------------
(* Values *)

Fault(c, n, a) == [cls |-> c, code |-> n, arg |-> a]
NoFault == Fault("none", 0, "")

(* Faults the transport raises on a non-2xx response *)
TransportFaults ==
    {Fault("CloudServersAPIFault", 404, ""), Fault("CloudServersAPIFault", 500, ""),
     Fault("OverLimitFault", 413, ""), Fault("CloudServersFault", 0, "")}

NameError(n) == Fault("NameError", 0, n)
AttributeError(n) == Fault("AttributeError", 0, n)
TypeError(n) == Fault("TypeError", 0, n)
KeyError(n) == Fault("KeyError", 0, n)
UnboundLocalError(n) == Fault("UnboundLocalError", 0, n)

None == [type |-> "None"]
Returned(v) == [kind |-> "return", fault |-> NoFault, value |-> v]
Raised(f) == [kind |-> "raise", fault |-> f, value |-> None]
NoOutcome == [kind |-> "none", fault |-> NoFault, value |-> None]

(* A transport answer: a fault, or a body that has the expected key or not;  *)
(* status is the status in a server body, n the number of listed entities,   *)
(* header whether Last-Modified came back, initNone what the external        *)
(* Server.initFromResultDict does when handed None.                          *)
Responses ==
    [fault : TransportFaults \cup {NoFault}, hasKey : BOOLEAN, status : Statuses,
     n : 0..MaxEntities, header : BOOLEAN, initNone : {"raise", "keep"}]

ServerResponses ==
    {r \in Responses :
        /\ r.n = 0 /\ r.header = FALSE
        /\ r.fault # NoFault => (r.hasKey /\ r.status = "ACTIVE")
        /\ ~r.hasKey => r.status = "ACTIVE"
        /\ (r.hasKey \/ r.fault # NoFault) => r.initNone = "keep"}

ListResponses ==
    {r \in Responses :
        /\ r.status = "ACTIVE" /\ r.initNone = "keep"
        /\ r.fault # NoFault => (r.hasKey /\ r.n = 0 /\ ~r.header)
        /\ ~r.hasKey => r.n = 0}

NoResponse ==
    [fault |-> NoFault, hasKey |-> TRUE, status |-> "ACTIVE", n |-> 0,
     header |-> FALSE, initNone |-> "keep"]

NoArgs ==
    [timeoutGiven |-> FALSE, detail |-> FALSE, offset |-> 0,
     limit |-> DEFAULT_PAGE_SIZE, lastModified |-> BEGINNING_OF_TIME]

(* A transport request; params is <<offset, limit>> for a listing, else <<>> *)
Request(m, u, p) == [method |-> m, uri |-> u, params |-> p]

----------------------------------------------------------------------------
(* Name and attribute resolution *)

NameBound(n) == n \in ModuleGlobals

(* The class along the MRO of cls that defines attribute n *)
LookupAttr(cls, n) ==
    IF cls = "ServerManager" /\ n \in ServerManagerAttrs THEN "ServerManager"
    ELSE IF n \in EntityManagerAttrs THEN "EntityManager"
    ELSE "AttributeError"

----------------------------------------------------------------------------
(* ServerManager: details, refresh, find *)

(* The external Server.initFromResultDict: a dict sets the status; what it   *)
(* does with None is not in this code, so both outcomes are allowed.         *)
initFromResultDict(s, hasDict, status, initNone) ==
    IF hasDict THEN [exc |-> NoFault, server |-> [s EXCEPT !.status = status]]
    ELSE IF initNone = "raise" THEN [exc |-> TypeError("initFromResultDict"), server |-> s]
    ELSE [exc |-> NoFault, server |-> s]

(* serverDetails: GET <prefix>/<id>; ret["server"], or None on KeyError *)
serverDetails(r) ==
    IF r.fault # NoFault THEN [exc |-> r.fault, hasDict |-> FALSE, status |-> r.status]
    ELSE [exc |-> NoFault, hasDict |-> r.hasKey, status |-> r.status]

refresh(cls, s, r) ==
    LET d == serverDetails(r) IN
    IF d.exc # NoFault THEN [exc |-> d.exc, server |-> s]
    ELSE LET i == initFromResultDict(s, d.hasDict, d.status, r.initNone) IN
         IF i.exc # NoFault THEN i
         ELSE [exc |-> NoFault, server |-> [i.server EXCEPT !.manager = cls]]

NewServer == [type |-> "Server", status |-> "", manager |-> "none"]

(* except CloudServersAPIFault, e: the class imported at line 16 *)
IsAPIFault(f) == f.cls = "CloudServersAPIFault"

find_swallowAll(cls, r) ==
    LET d == serverDetails(r) IN
    IF d.exc # NoFault THEN Returned(None)
    ELSE LET i == initFromResultDict(NewServer, d.hasDict, d.status, r.initNone) IN
         IF i.exc # NoFault THEN Raised(i.exc)
         ELSE Returned([i.server EXCEPT !.manager = cls])

find(cls, r) ==
    LET d == serverDetails(r) IN
    IF d.exc # NoFault THEN
        IF NameBound("CloudServersAPIFault") /\ IsAPIFault(d.exc) /\ d.exc.code = 404
        THEN Returned(None)
        ELSE IF NameBound("CloudServersAPIFault") THEN Raised(d.exc)
        ELSE Raised(NameError("CloudServersAPIFault"))
    ELSE LET i == initFromResultDict(NewServer, d.hasDict, d.status, r.initNone) IN
         IF i.exc # NoFault THEN Raised(i.exc)
         ELSE Returned([i.server EXCEPT !.manager = cls])

----------------------------------------------------------------------------
(* ServerManager: the poll loop *)

serverInWaitState_noActive(s) == s.status \notin (end_states \ {"ACTIVE"})

serverInWaitState_buildEnds(s) == s.status \notin (end_states \cup {"BUILD"})

_serverInWaitState(s) == s.status \notin end_states

(* The except clauses of _wait, tried in order once the try body has raised  *)
(* exc.  An except clause evaluates its class expression first; a name that  *)
(* is not bound raises NameError in place of exc.  In the OverLimitFault     *)
(* handler `datetime.now - <datetime>` subtracts from the unbound method.    *)
WaitExcept(exc) ==
    IF ~NameBound("OverLimitFault")
    THEN [swallow |-> FALSE, exc |-> NameError("OverLimitFault")]
    ELSE IF exc.cls = "OverLimitFault"
    THEN [swallow |-> FALSE, exc |-> TypeError("datetime.now - datetime")]
    ELSE IF ~NameBound("CloudServersFault")
    THEN [swallow |-> FALSE, exc |-> NameError("CloudServersFault")]
    ELSE IF exc.cls \in {"CloudServersFault", "CloudServersAPIFault"}
    THEN [swallow |-> TRUE, exc |-> NoFault]
    ELSE [swallow |-> FALSE, exc |-> exc]

----------------------------------------------------------------------------
(* EntityManager: default refusals *)

(* raise _bmf(self.__class__) *)
RaiseBound(cls) == Fault("BadMethodFault", 0, cls)

(* raise _bmf: Python instantiates the class with no argument. The fault     *)
(* then names no manager class, or the constructor rejects the missing       *)
(* argument.                                                                 *)
RaiseBare == {Fault("BadMethodFault", 0, ""), TypeError("BadMethodFault.__init__")}

----------------------------------------------------------------------------
(* EntityManager: listing *)

RequestPrefix(cls) == "servers"

(* The master page fetch. kw is the set of keyword names of the call. *)
_createList(cls, kw, detail, offset, limit, lastModified, r) ==
    LET conditionalGet == lastModified # BEGINNING_OF_TIME
        pagedGet == (offset # 0 \/ limit # DEFAULT_PAGE_SIZE)
        uri == IF detail THEN "servers/detail" ELSE RequestPrefix(cls)
        get == <<Request("GET", uri, <<offset, limit>>)>>
        entityList == [type |-> "EntityList", n |-> r.n, detail |-> detail,
                       manager |-> cls]
        (* the local dict of line 184, bound to nothing that is returned *)
        data == [conditionalGet |-> conditionalGet, pagedGet |-> pagedGet,
                 lastModified |-> lastModified, lastModifiedAsString |-> r.header]
    IN  IF ~(kw \subseteq CreateListParams)
        THEN [out |-> Raised(TypeError("unexpected keyword argument")), reqs |-> <<>>]
        ELSE IF r.fault # NoFault THEN [out |-> Raised(r.fault), reqs |-> get]
        ELSE IF ~r.hasKey THEN [out |-> Raised(KeyError(RequestPrefix(cls))), reqs |-> get]
        ELSE IF LookupAttr(cls, "createEntityListFromResponse") = "AttributeError"
        THEN [out |-> Raised(AttributeError("createEntityListFromResponse")), reqs |-> get]
        ELSE IF conditionalGet
        THEN [out |-> Raised(UnboundLocalError("lastModifiedAsString")), reqs |-> get]
        ELSE [out |-> Returned(entityList), reqs |-> get]

----------------------------------------------------------------------------
(* State *)

Init ==
    /\ pc = "idle"
    /\ call = [op |-> "", cls |-> "ServerManager"]
    /\ args = NoArgs
    /\ outcome = NoOutcome
    /\ server \in {[type |-> "Server", status |-> st, manager |-> "none"] : st \in Statuses}
    /\ resp = NoResponse
    /\ transportFault = NoFault
    /\ requests = <<>>
    /\ refreshes = 0
    /\ history = <<>>
    /\ started = server.status

(* A client invokes method op with arguments a on a manager of class cls *)
Invoke(op, cls, a) ==
    /\ pc = "idle"
    /\ call' = [op |-> op, cls |-> cls]
    /\ args' = a
    /\ started' = server.status
    /\ refreshes' = 0
    /\ history' = <<>>

(* The call ends with outcome out after the transport requests reqs, the     *)
(* last of them answered by r (NoResponse when reqs is empty)                *)
Finish(out, reqs, r) ==
    /\ pc' = "done"
    /\ outcome' = out
    /\ requests' = reqs
    /\ resp' = r
    /\ transportFault' = r.fault

----------------------------------------------------------------------------
(* EntityManager: the default operations *)

EntityManager_create(cls) ==
    /\ LookupAttr(cls, "create") = "EntityManager"
    /\ Invoke("create", cls, NoArgs)
    /\ Finish(Raised(RaiseBound(cls)), <<>>, NoResponse)
    /\ UNCHANGED server

EntityManager_update(cls) ==
    /\ LookupAttr(cls, "update") = "EntityManager"
    /\ Invoke("update", cls, NoArgs)
    /\ Finish(Raised(RaiseBound(cls)), <<>>, NoResponse)
    /\ UNCHANGED server

EntityManager_refresh(cls) ==
    /\ LookupAttr(cls, "refresh") = "EntityManager"
    /\ Invoke("refresh", cls, NoArgs)
    /\ Finish(Raised(RaiseBound(cls)), <<>>, NoResponse)
    /\ UNCHANGED server

EntityManager_find(cls) ==
    /\ LookupAttr(cls, "find") = "EntityManager"
    /\ Invoke("find", cls, NoArgs)
    /\ \E f \in RaiseBare : Finish(Raised(f), <<>>, NoResponse)
    /\ UNCHANGED server

EntityManager_wait(cls) ==
    /\ LookupAttr(cls, "wait") = "EntityManager"
    /\ Invoke("wait", cls, NoArgs)
    /\ \E f \in RaiseBare : Finish(Raised(f), <<>>, NoResponse)
    /\ UNCHANGED server

EntityManager_waitT(cls) ==
    /\ LookupAttr(cls, "waitT") = "EntityManager"
    /\ Invoke("waitT", cls, [NoArgs EXCEPT !.timeoutGiven = TRUE])
    /\ \E f \in RaiseBare : Finish(Raised(f), <<>>, NoResponse)
    /\ UNCHANGED server

EntityManager_notify(cls) ==
    /\ LookupAttr(cls, "notify") = "EntityManager"
    /\ Invoke("notify", cls, NoArgs)
    /\ \E f \in RaiseBare : Finish(Raised(f), <<>>, NoResponse)
    /\ UNCHANGED server

EntityManager_stopNotify(cls) ==
    /\ LookupAttr(cls, "stopNotify") = "EntityManager"
    /\ Invoke("stopNotify", cls, NoArgs)
    /\ \E f \in RaiseBare : Finish(Raised(f), <<>>, NoResponse)
    /\ UNCHANGED server

(* remove: DELETE <prefix>/<id>, nothing returned *)
EntityManager_remove(cls) ==
    /\ LookupAttr(cls, "remove") = "EntityManager"
    /\ Invoke("remove", cls, NoArgs)
    /\ \E r \in {x \in ServerResponses : x.hasKey /\ x.status = "ACTIVE"} :
          Finish(IF r.fault # NoFault THEN Raised(r.fault) ELSE Returned(None),
                 <<Request("DELETE", "servers/id", <<>>)>>, r)
    /\ UNCHANGED server

----------------------------------------------------------------------------
(* EntityManager: listings *)

EntityManager__createList(cls) ==
    /\ LookupAttr(cls, "_createList") = "EntityManager"
    /\ \E d \in BOOLEAN, o \in 0..MaxOffset, l \in {50, DEFAULT_PAGE_SIZE},
          t \in 0..MaxTime, r \in ListResponses :
          LET res == _createList(cls, {"detail", "offset", "limit", "lastModified"},
                                 d, o, l, t, r) IN
          /\ Invoke("_createList", cls,
                    [NoArgs EXCEPT !.detail = d, !.offset = o, !.limit = l,
                                   !.lastModified = t])
          /\ Finish(res.out, res.reqs, IF res.reqs = <<>> THEN NoResponse ELSE r)
    /\ UNCHANGED server

EntityManager_createList(cls) ==
    /\ LookupAttr(cls, "createList") = "EntityManager"
    /\ \E d \in BOOLEAN, r \in ListResponses :
          LET res == _createList(cls, {}, d, 0, DEFAULT_PAGE_SIZE, BEGINNING_OF_TIME, r) IN
          /\ Invoke("createList", cls, [NoArgs EXCEPT !.detail = d])
          /\ Finish(res.out, res.reqs, IF res.reqs = <<>> THEN NoResponse ELSE r)
    /\ UNCHANGED server

(* passes changes_since=..., a keyword _createList does not have *)
EntityManager_createDeltaList(cls) ==
    /\ LookupAttr(cls, "createDeltaList") = "EntityManager"
    /\ \E d \in BOOLEAN, t \in 0..MaxTime, r \in ListResponses :
          LET res == _createList(cls, {"changes_since"}, d, 0, DEFAULT_PAGE_SIZE,
                                 BEGINNING_OF_TIME, r) IN
          /\ Invoke("createDeltaList", cls,
                    [NoArgs EXCEPT !.detail = d, !.lastModified = t])
          /\ Finish(res.out, res.reqs, IF res.reqs = <<>> THEN NoResponse ELSE r)
    /\ UNCHANGED server

EntityManager_createListP(cls) ==
    /\ LookupAttr(cls, "createListP") = "EntityManager"
    /\ \E d \in BOOLEAN, o \in 0..MaxOffset, l \in {50, DEFAULT_PAGE_SIZE},
          r \in ListResponses :
          LET res == _createList(cls, {"offset", "limit"}, d, o, l,
                                 BEGINNING_OF_TIME, r) IN
          /\ Invoke("createListP", cls,
                    [NoArgs EXCEPT !.detail = d, !.offset = o, !.limit = l])
          /\ Finish(res.out, res.reqs, IF res.reqs = <<>> THEN NoResponse ELSE r)
    /\ UNCHANGED server

(* calls self._createDeltaList, an attribute no class defines *)
EntityManager_createDeltaListP(cls) ==
    /\ LookupAttr(cls, "createDeltaListP") = "EntityManager"
    /\ \E d \in BOOLEAN, o \in 0..MaxOffset, l \in {50, DEFAULT_PAGE_SIZE},
          t \in 0..MaxTime, r \in ListResponses :
          LET res == IF LookupAttr(cls, "_createDeltaList") = "AttributeError"
                     THEN [out |-> Raised(AttributeError("_createDeltaList")),
                           reqs |-> <<>>]
                     ELSE _createList(cls, {"changes_since", "offset", "limit"},
                                      d, o, l, t, r) IN
          /\ Invoke("createDeltaListP", cls,
                    [NoArgs EXCEPT !.detail = d, !.offset = o, !.limit = l,
                                   !.lastModified = t])
          /\ Finish(res.out, res.reqs, IF res.reqs = <<>> THEN NoResponse ELSE r)
    /\ UNCHANGED server

----------------------------------------------------------------------------
(* ServerManager: the overriding operations *)

ServerManager_create(cls) ==
    /\ LookupAttr(cls, "create") = "ServerManager"
    /\ Invoke("create", cls, NoArgs)
    /\ \E r \in ServerResponses :
          /\ Finish(IF r.fault # NoFault THEN Raised(r.fault)
                    ELSE IF ~r.hasKey THEN Raised(KeyError("server"))
                    ELSE Returned(None),
                    <<Request("POST", "servers", <<>>)>>, r)
          /\ server' = IF r.fault # NoFault THEN server
                       ELSE IF ~r.hasKey THEN [server EXCEPT !.manager = cls]
                       ELSE [server EXCEPT !.manager = cls, !.status = r.status]

ServerManager_update(cls) ==
    /\ LookupAttr(cls, "update") = "ServerManager"
    /\ Invoke("update", cls, NoArgs)
    /\ \E r \in ServerResponses :
          LET res == refresh(cls, server, r) IN
          /\ Finish(IF res.exc # NoFault THEN Raised(res.exc) ELSE Returned(None),
                    <<Request("GET", "servers/id", <<>>)>>, r)
          /\ server' = res.server

ServerManager_refresh(cls) ==
    /\ LookupAttr(cls, "refresh") = "ServerManager"
    /\ Invoke("refresh", cls, NoArgs)
    /\ \E r \in ServerResponses :
          LET res == refresh(cls, server, r) IN
          /\ Finish(IF res.exc # NoFault THEN Raised(res.exc) ELSE Returned(None),
                    <<Request("GET", "servers/id", <<>>)>>, r)
          /\ server' = res.server

ServerManager_find(cls) ==
    /\ LookupAttr(cls, "find") = "ServerManager"
    /\ Invoke("find", cls, NoArgs)
    /\ \E r \in ServerResponses :
          Finish(find(cls, r), <<Request("GET", "servers/id", <<>>)>>, r)
    /\ UNCHANGED server

ServerManager_notify(cls) ==
    /\ LookupAttr(cls, "notify") = "ServerManager"
    /\ Invoke("notify", cls, NoArgs)
    /\ Finish(Raised(Fault("NotImplementedException", 0, "")), <<>>, NoResponse)
    /\ UNCHANGED server

ServerManager_stopNotify(cls) ==
    /\ LookupAttr(cls, "stopNotify") = "ServerManager"
    /\ Invoke("stopNotify", cls, NoArgs)
    /\ Finish(Raised(Fault("NotImplementedException", 0, "")), <<>>, NoResponse)
    /\ UNCHANGED server

(* wait: without a timeout enters _wait; with one, looks up self._timeout,   *)
(* which neither class defines, before _wait is ever entered                 *)
ServerManager_wait(cls) ==
    /\ LookupAttr(cls, "wait") = "ServerManager"
    /\ \E tg \in BOOLEAN :
          /\ Invoke("wait", cls, [NoArgs EXCEPT !.timeoutGiven = tg])
          /\ IF ~tg \/ LookupAttr(cls, "_timeout") # "AttributeError"
             THEN /\ pc' = "wait"
                  /\ outcome' = NoOutcome
                  /\ requests' = <<>>
                  /\ resp' = NoResponse
                  /\ transportFault' = NoFault
             ELSE Finish(Raised(AttributeError("_timeout")), <<>>, NoResponse)
    /\ UNCHANGED server

(* One pass of the while loop of _wait: the loop test, then the try body *)
ServerManager__wait ==
    /\ pc = "wait"
    /\ UNCHANGED <<call, args, started>>
    /\ IF ~_serverInWaitState(server)
       THEN /\ pc' = "done"
            /\ outcome' = Returned(None)
            /\ UNCHANGED <<server, resp, transportFault, requests, refreshes, history>>
       ELSE /\ refreshes < MaxRefresh
            /\ \E r \in ServerResponses :
                  LET res == refresh(call.cls, server, r)
                      h == WaitExcept(res.exc) IN
                  /\ requests' = Append(requests, Request("GET", "servers/id", <<>>))
                  /\ refreshes' = refreshes + 1
                  /\ resp' = r
                  /\ transportFault' = r.fault
                  /\ server' = res.server
                  /\ IF res.exc = NoFault
                     THEN /\ history' = Append(history, res.server.status)
                          /\ UNCHANGED <<pc, outcome>>
                     ELSE /\ UNCHANGED history
                          /\ IF h.swallow
                             THEN UNCHANGED <<pc, outcome>>
                             ELSE pc' = "done" /\ outcome' = Raised(h.exc)

----------------------------------------------------------------------------
(* The caller has taken the outcome of the finished call; the entity keeps   *)
(* what the call did to it                                                   *)
Return ==
    /\ pc = "done"
    /\ pc' = "idle"
    /\ call' = [op |-> "", cls |-> "ServerManager"]
    /\ args' = NoArgs
    /\ outcome' = NoOutcome
    /\ resp' = NoResponse
    /\ transportFault' = NoFault
    /\ requests' = <<>>
    /\ refreshes' = 0
    /\ history' = <<>>
    /\ started' = server.status
    /\ UNCHANGED server

Next ==
    \/ \E cls \in Classes : EntityManager_create(cls)
    \/ \E cls \in Classes : EntityManager_update(cls)
    \/ \E cls \in Classes : EntityManager_refresh(cls)
    \/ \E cls \in Classes : EntityManager_find(cls)
    \/ \E cls \in Classes : EntityManager_wait(cls)
    \/ \E cls \in Classes : EntityManager_waitT(cls)
    \/ \E cls \in Classes : EntityManager_notify(cls)
    \/ \E cls \in Classes : EntityManager_stopNotify(cls)
    \/ \E cls \in Classes : EntityManager_remove(cls)
    \/ \E cls \in Classes : EntityManager__createList(cls)
    \/ \E cls \in Classes : EntityManager_createList(cls)
    \/ \E cls \in Classes : EntityManager_createDeltaList(cls)
    \/ \E cls \in Classes : EntityManager_createListP(cls)
    \/ \E cls \in Classes : EntityManager_createDeltaListP(cls)
    \/ \E cls \in Classes : ServerManager_create(cls)
    \/ \E cls \in Classes : ServerManager_update(cls)
    \/ \E cls \in Classes : ServerManager_refresh(cls)
    \/ \E cls \in Classes : ServerManager_find(cls)
    \/ \E cls \in Classes : ServerManager_notify(cls)
    \/ \E cls \in Classes : ServerManager_stopNotify(cls)
    \/ \E cls \in Classes : ServerManager_wait(cls)
    \/ ServerManager__wait
    \/ Return

Spec == Init /\ [][Next]_vars

----------------------------------------------------------------------------
(* Properties *)

WaitCall == call.op = "wait" /\ call.cls = "ServerManager" /\ ~args.timeoutGiven

(* C1: ServerManager.wait(server) without a timeout returns normally only    *)
(* when server.status is one of the six end states; after a refresh that     *)
(* left a status outside them the loop is still waiting, and the step it     *)
(* takes from there is another refresh.                                      *)
C1_WaitReturnsOnlyInEndState ==
    /\ []((WaitCall /\ pc = "done" /\ outcome.kind = "return")
            => server.status \in end_states)
    /\ []((WaitCall /\ pc \in {"wait", "done"} /\ refreshes > 0
             /\ Len(history) = refreshes /\ server.status \notin end_states)
            => pc = "wait")
    /\ [][(WaitCall /\ pc = "wait" /\ server.status \notin end_states)
            => (refreshes' = refreshes + 1
                /\ Len(requests') = Len(requests) + 1
                /\ requests'[Len(requests')].method = "GET")]_vars

C1_Witness ==
    /\ WaitCall /\ pc = "done" /\ outcome.kind = "return"
    /\ refreshes = 2 /\ history[1] \notin end_states /\ history[2] \in end_states

(* C2: in wait, a refresh that raises a fault other than OverLimitFault ends *)
(* the loop and that same fault reaches the caller.                          *)
C2_OtherFaultPropagatesUnchanged ==
    (WaitCall /\ pc \in {"wait", "done"} /\ transportFault # NoFault
        /\ transportFault.cls # "OverLimitFault")
      => (pc = "done" /\ outcome = Raised(transportFault))

(* C3: an OverLimitFault raised by a refresh never ends the wait: the loop   *)
(* is still waiting after it.                                                *)
C3_OverLimitNeverEndsWait ==
    (WaitCall /\ pc \in {"wait", "done"} /\ transportFault.cls = "OverLimitFault")
      => pc = "wait"

(* C4: wait(server, timeout) that has ended on a server whose status is not  *)
(* an end state, no refresh having failed, ended by signalling a timeout.    *)
C4_TimedWaitEndsInTimeout ==
    (call.op = "wait" /\ call.cls = "ServerManager" /\ args.timeoutGiven
        /\ pc = "done" /\ server.status \notin end_states
        /\ transportFault = NoFault)
      => outcome.kind = "timeout"

(* C5: ServerManager.find returns None exactly when the transport raised     *)
(* CloudServersAPIFault with code 404; any other transport fault comes out   *)
(* of find unchanged; and a find that returns without a fault returns a      *)
(* Server whose manager is the manager that was asked.                       *)
C5_FindAbsenceOnlyOn404 ==
    (call.op = "find" /\ call.cls = "ServerManager" /\ pc = "done")
      => /\ (outcome = Returned(None))
                <=> (transportFault = Fault("CloudServersAPIFault", 404, ""))
         /\ (transportFault # NoFault
                /\ transportFault # Fault("CloudServersAPIFault", 404, ""))
              => outcome = Raised(transportFault)
         /\ (transportFault = NoFault /\ outcome.kind = "return")
              => (outcome.value.type = "Server" /\ outcome.value.manager = call.cls)
         /\ Len(requests) = 1

C5_Witness ==
    /\ call.op = "find" /\ call.cls = "ServerManager" /\ pc = "done"
    /\ transportFault = Fault("CloudServersAPIFault", 404, "")
    /\ outcome = Returned(None)

(* C6: each of create, update, refresh, find, wait, notify, stopNotify, on a *)
(* manager that does not override it, fails with BadMethodFault bound to the *)
(* manager's class and sends no transport request.                           *)
C6_DefaultRefusalBoundToClass ==
    (pc = "done"
        /\ call.op \in {"create", "update", "refresh", "find", "wait", "notify",
                        "stopNotify"}
        /\ LookupAttr(call.cls, call.op) = "EntityManager")
      => (outcome = Raised(RaiseBound(call.cls)) /\ requests = <<>>)

(* C7: _createList with a lastModified other than BEGINNING_OF_TIME, the GET *)
(* answered with a body, returns a list whose conditionalGet is true and     *)
(* whose lastModified is the caller's value.                                 *)
C7_ConditionalGetKeepsLastModified ==
    (pc = "done" /\ call.op = "_createList" /\ call.cls = "ServerManager"
        /\ args.lastModified # BEGINNING_OF_TIME
        /\ resp.fault = NoFault /\ resp.hasKey)
      => /\ outcome.kind = "return"
         /\ {"conditionalGet", "lastModified"} \subseteq DOMAIN outcome.value
         /\ outcome.value.conditionalGet = TRUE
         /\ outcome.value.lastModified = args.lastModified

(* C8: the list _createList / createListP returns carries pagedGet, true     *)
(* exactly when offset # 0 or limit # DEFAULT_PAGE_SIZE.                     *)
C8_PagedGetCarriedOnList ==
    (pc = "done" /\ call.op \in {"_createList", "createListP"}
        /\ outcome.kind = "return")
      => /\ "pagedGet" \in DOMAIN outcome.value
         /\ outcome.value.pagedGet
              = (args.offset # 0 \/ args.limit # DEFAULT_PAGE_SIZE)

(* C9: each of createList, createDeltaList, createListP, createDeltaListP    *)
(* has sent exactly one GET when it ends.                                    *)
C9_WrappersIssueOneGet ==
    (pc = "done" /\ call.cls = "ServerManager"
        /\ call.op \in {"createList", "createDeltaList", "createListP",
                        "createDeltaListP"})
      => (Len(requests) = 1 /\ requests[1].method = "GET")

(* C10: wait(server) on a server that starts outside the end states, every   *)
(* refresh succeeding: no refresh follows a refresh that gave an end state,  *)
(* and the wait returns after exactly as many refreshes as it takes to see   *)
(* the first end state, with server.status that state.                       *)
C10_RefreshesUntilFirstEndState ==
    (WaitCall /\ pc \in {"wait", "done"} /\ started \notin end_states)
      => /\ \A i \in 1..(Len(history) - 1) : history[i] \notin end_states
         /\ (pc = "done" /\ outcome.kind = "return")
              => /\ refreshes >= 1
                 /\ Len(history) = refreshes
                 /\ Len(requests) = refreshes
                 /\ history[refreshes] \in end_states
                 /\ server.status = history[refreshes]

C10_Witness ==
    /\ WaitCall /\ pc = "done" /\ outcome.kind = "return"
    /\ started = "PENDING"
    /\ history = <<"PENDING", "PENDING", "ACTIVE">>
    /\ refreshes = 3 /\ server.status = "ACTIVE"

====
